---- MODULE Spec2Model ----
(***************************************************************************)
(* Model of script_bot.js: the FAQ chat widget.  A text is a sequence of   *)
(* characters, one string each (so that trim, toLowerCase and the          *)
(* \b(\w+)\b match can be computed character by character); a word, an    *)
(* answer and a rendered message text are strings.  The children of        *)
(* #chat-messages are                                                      *)
(* a sequence of elements.  A JavaScript handler runs to completion, so    *)
(* each action is a handler up to its first await, or the continuation     *)
(* after the await.  Scroll position and keyboard focus are not modelled.  *)
(***************************************************************************)
EXTENDS Naturals, Sequences, FiniteSets, TLC

VARIABLES
    chatInputValue,      \* chatInput.value, a text
    chatInputDisabled,   \* chatInput.disabled
    sendButtonDisabled,  \* sendButton.disabled
    chatMessages,        \* the children of #chat-messages, oldest first
    pending,             \* the getBotResponse calls suspended at `await q.get()`
    queriesThisTurn,     \* observer: q.get() calls made since the last accepted send
    lastPath,            \* observer: the branch the most recent turn took
    lastKeywords,        \* observer: limitedKeywords of the most recent getBotResponse
    lastSnapshot         \* observer: the querySnapshot most recently delivered

vars == <<chatInputValue, chatInputDisabled, sendButtonDisabled, chatMessages,
          pending, queriesThisTurn, lastPath, lastKeywords, lastSnapshot>>

----------------------------------------------------------------------------
(* Bounds of the model *)

MaxTurns == 2
MaxCandidates == 2
MaxPieces == 6
MaxTranscript == 4

(* slice(0, 10) *)
MaxKeywords == 10

----------------------------------------------------------------------------
(* Strings and characters *)

defaultResponse ==
    "I'm sorry, I don't have the answer to that. Please try asking in a different way or visit the official IST website for more information."

troubleResponse ==
    "Sorry, I'm having trouble connecting to my knowledge base right now."

stopWords ==
    {"i","me","my","myself","we","our","ours","ourselves","you","your","yours",
     "yourself","yourselves","he","him","his","himself","she","her","hers",
     "herself","it","its","itself","they","them","their","theirs","themselves",
     "what","which","who","whom","this","that","these","those","am","is","are",
     "was","were","be","been","being","have","has","had","having","do","does",
     "did","doing","a","an","the","and","but","if","or","because","as","until",
     "while","of","at","by","for","with","about","against","between","into",
     "through","during","before","after","above","below","to","from","up",
     "down","in","out","on","off","over","under","again","further","then",
     "once","here","there","when","where","why","how","all","any","both",
     "each","few","more","most","other","some","such","no","nor","not","only",
     "own","same","so","than","too","very","s","t","can","will","just","don",
     "should","now"}

UpperLetters ==
    <<"A","B","C","D","E","F","G","H","I","J","K","L","M",
      "N","O","P","Q","R","S","T","U","V","W","X","Y","Z">>

LowerLetters ==
    <<"a","b","c","d","e","f","g","h","i","j","k","l","m",
      "n","o","p","q","r","s","t","u","v","w","x","y","z">>

Digits == {"0","1","2","3","4","5","6","7","8","9"}

Range(s) == {s[i] : i \in 1..Len(s)}

(* \w of the regular expression: [A-Za-z0-9_] *)
WordChars == Range(UpperLetters) \cup Range(LowerLetters) \cup Digits \cup {"_"}

----------------------------------------------------------------------------
(* A character is a code point of the text, written as a string: itself    *)
(* when it is printable ASCII (the grave accent aside) or one of \t \n \f  *)
(* \r, and its name U+XXXX otherwise ("U+00A0" is the no-break space,      *)
(* "U+212A" the Kelvin sign).                                              *)

(* WhiteSpace and LineTerminator of ECMAScript: what trim strips *)
WhiteSpace ==
    {"\t","U+000B","\f"," ","U+00A0","U+1680","U+2000","U+2001","U+2002",
     "U+2003","U+2004","U+2005","U+2006","U+2007","U+2008","U+2009",
     "U+200A","U+202F","U+205F","U+3000","U+FEFF","\n","\r","U+2028",
     "U+2029"}

----------------------------------------------------------------------------
Min(a, b) == IF a < b THEN a ELSE b

(* the string a text spells *)
RECURSIVE Join(_)
Join(text) == IF text = <<>> THEN "" ELSE Head(text) \o Join(Tail(text))

(* String.prototype.trim *)
RECURSIVE trimStart(_)
trimStart(text) ==
    IF text # <<>> /\ Head(text) \in WhiteSpace THEN trimStart(Tail(text)) ELSE text

RECURSIVE trimEnd(_)
trimEnd(text) ==
    IF text # <<>> /\ text[Len(text)] \in WhiteSpace
    THEN trimEnd(SubSeq(text, 1, Len(text) - 1))
    ELSE text

trim(text) == trimEnd(trimStart(text))

(* userText.toLowerCase() as .match(/\b(\w+)\b/g) reads it.  \w is        *)
(* [A-Za-z0-9_]: of the lowered text the match reads the ASCII word        *)
(* characters and, of any other character, only that it is not one.  The   *)
(* characters whose lower case holds a word character are the word         *)
(* characters themselves, U+212A KELVIN SIGN (lowers to k) and U+0130      *)
(* LATIN CAPITAL LETTER I WITH DOT ABOVE (lowers to i followed by U+0307). *)
(* The lower case of every other character lies outside \w; which          *)
(* character it is depends on the version of Unicode the engine            *)
(* implements and, for U+03A3, on the neighbouring characters, and the     *)
(* program never reads it.  NonWord stands for one lowered character       *)
(* outside \w.                                                             *)
NonWord == "\\W"

lowerCharAsMatched(c) ==
    IF \E k \in 1..Len(UpperLetters) : UpperLetters[k] = c
    THEN <<LowerLetters[CHOOSE k \in 1..Len(UpperLetters) : UpperLetters[k] = c]>>
    ELSE IF c \in WordChars
         THEN <<c>>
         ELSE IF c = "U+212A"
              THEN <<"k">>
              ELSE IF c = "U+0130" THEN <<"i", NonWord>> ELSE <<NonWord>>

RECURSIVE toLowerCaseAsMatched(_)
toLowerCaseAsMatched(text) ==
    IF text = <<>>
    THEN <<>>
    ELSE lowerCharAsMatched(Head(text)) \o toLowerCaseAsMatched(Tail(text))

(* text.match(/\b(\w+)\b/g) || [] : the maximal runs of word characters,  *)
(* in order; `run` is the run being read                                   *)
RECURSIVE matchFrom(_, _, _)
matchFrom(text, k, run) ==
    IF k > Len(text)
    THEN (IF run = "" THEN <<>> ELSE <<run>>)
    ELSE IF text[k] \in WordChars
         THEN matchFrom(text, k + 1, run \o text[k])
         ELSE (IF run = "" THEN <<>> ELSE <<run>>) \o matchFrom(text, k + 1, "")

matchWords(text) == matchFrom(text, 1, "")

(* getBotResponse, step 1 *)
allWords(userText) == matchWords(toLowerCaseAsMatched(userText))

IsKeyword(word) == word \notin stopWords

userKeywords(userText) == SelectSeq(allWords(userText), IsKeyword)

slice(s, n) == SubSeq(s, 1, Min(Len(s), n))

limitedKeywords_noSlice(userText) == userKeywords(userText)

limitedKeywords(userText) == slice(userKeywords(userText), MaxKeywords)

----------------------------------------------------------------------------
(* The chat window *)

UserClass == "user-message"
BotClass == "bot-message"
IndicatorId == "typing-indicator"

Message(text, className) == [cls |-> className, text |-> text, id |-> ""]

(* the element showTypingIndicator builds: classes message, bot-message,   *)
(* typing-indicator; id typing-indicator; no text                          *)
Indicator == [cls |-> IndicatorId, text |-> "", id |-> IndicatorId]

IsIndicator(el) == el.id = IndicatorId

addMessage(children, text, className) == Append(children, Message(text, className))

showTypingIndicator(children) == Append(children, Indicator)

RemoveAt(s, k) == SubSeq(s, 1, k - 1) \o SubSeq(s, k + 1, Len(s))

(* a hide that removes the newest child whatever it is *)
hideTypingIndicator_lastChild(children) ==
    IF children = <<>> THEN children ELSE RemoveAt(children, Len(children))

(* document.getElementById returns the first element with the id *)
hideTypingIndicator(children) ==
    IF \E k \in 1..Len(children) : IsIndicator(children[k])
    THEN RemoveAt(children,
                  CHOOSE k \in 1..Len(children) :
                      /\ IsIndicator(children[k])
                      /\ \A j \in 1..(k - 1) : ~IsIndicator(children[j]))
    ELSE children

----------------------------------------------------------------------------
(* The store and the scoring *)

(* limitedKeywords.includes(keyword) *)
includes(list, word) == \E k \in 1..Len(list) : list[k] = word

(* a score that records that some keyword is shared, not how many are *)
currentScore_anyMatch(docKeywords, keywords) ==
    IF \E k \in 1..Len(docKeywords) : includes(keywords, docKeywords[k]) THEN 1 ELSE 0

(* the inner forEach: one increment per entry of docData.keywords that the *)
(* query holds                                                             *)
currentScore(docKeywords, keywords) ==
    Cardinality({k \in 1..Len(docKeywords) : includes(keywords, docKeywords[k])})

(* a comparison with >= in place of >: a later document of equal score    *)
(* replaces the best                                                       *)
RECURSIVE forEachDoc_lastWins(_, _, _, _)
forEachDoc_lastWins(docs, k, best, keywords) ==
    IF k > Len(docs)
    THEN best
    ELSE LET score == currentScore(docs[k].keywords, keywords)
         IN forEachDoc_lastWins(docs, k + 1,
                                IF score >= best.score
                                THEN [score |-> score, answer |-> docs[k].answer]
                                ELSE best,
                                keywords)

(* querySnapshot.forEach: the running best after the documents from k on *)
RECURSIVE forEachDoc(_, _, _, _)
forEachDoc(docs, k, best, keywords) ==
    IF k > Len(docs)
    THEN best
    ELSE LET score == currentScore(docs[k].keywords, keywords)
         IN forEachDoc(docs, k + 1,
                       IF score > best.score
                       THEN [score |-> score, answer |-> docs[k].answer]
                       ELSE best,
                       keywords)

bestMatch(docs, keywords) ==
    forEachDoc(docs, 1, [score |-> 0, answer |-> defaultResponse], keywords)

(* the bot message of a query that resolved *)
renderedAnswer(docs, keywords) ==
    IF docs = <<>> THEN defaultResponse ELSE bestMatch(docs, keywords).answer

(* where('keywords', 'array-contains-any', limitedKeywords) *)
arrayContainsAny(docKeywords, keywords) ==
    \E k \in 1..Len(docKeywords) : includes(keywords, docKeywords[k])

(* documents the qna collection may hold: the keywords of a document are  *)
(* lower-case words, none of them listed twice                             *)
QnaDocs ==
    { [keywords |-> <<"lab", "fee">>, answer |-> "X"],
      [keywords |-> <<"fee">>,        answer |-> "Y"],
      [keywords |-> <<"fee", "lab">>, answer |-> "Z"] }

SeqsUpTo(S, n) == UNION {[1..k -> S] : k \in 0..n}

(* the snapshots q.get() may resolve to: matching documents, each at most *)
(* once, in any order                                                      *)
Snapshots(keywords) ==
    {docs \in SeqsUpTo({d \in QnaDocs : arrayContainsAny(d.keywords, keywords)},
                       MaxCandidates) :
        \A i, j \in 1..Len(docs) : docs[i] = docs[j] => i = j}

----------------------------------------------------------------------------
(* What the user may type *)

TextBlank == <<" ", " ">>
TextNoBreakSpaces == <<"U+00A0", "\f", "U+3000">>
TextStopWords == <<"W","h","a","t"," ","i","s"," ","T","H","E","?">>
TextLabFee == <<" ","I","s"," ","t","h","e"," ","L","a","b"," ","f","e","e","?"," ">>
TextLabLabFee ==
    <<"\f","l","a","b","U+00A0","L","A","B"," ","f","e","e","U+2028">>

Texts == {TextBlank, TextNoBreakSpaces, TextStopWords, TextLabFee, TextLabLabFee}

Piece1 == <<"T","h","e"," ","I","S","T"," ">>
Piece2 == <<"L","a","b",",","f","e","e",";">>
Piece3 == <<"x","_","9"," ","i","s"," ","A">>

Piece4 == <<"U+212A","e","y","U+00A0","U+0130","s","t","U+03A3">>

Pieces == {Piece1, Piece2, Piece3, Piece4}

----------------------------------------------------------------------------
(* The state after the script has loaded *)

Init ==
    /\ chatInputValue = <<>>
    /\ chatInputDisabled = FALSE
    /\ sendButtonDisabled = FALSE
    /\ chatMessages = <<>>
    /\ pending = <<>>
    /\ queriesThisTurn = 0
    /\ lastPath = "none"
    /\ lastKeywords = <<>>
    /\ lastSnapshot = <<>>

UserMessages(children) == SelectSeq(children, LAMBDA el : el.cls = UserClass)

----------------------------------------------------------------------------
(* getBotResponse up to `await q.get()`.  `children` is the chat window as *)
(* sendMessage left it; inputOff and buttonOff are the disabled flags as   *)
(* sendMessage set them.  With no keyword the function returns before the  *)
(* try block; otherwise it issues the query and suspends.                  *)

getBotResponse_noEmptyCheck(userText, children, inputOff, buttonOff) ==
    LET keywords == limitedKeywords(userText)
    IN /\ lastKeywords' = keywords
       /\ lastSnapshot' = <<>>
       /\ chatMessages' = children
       /\ chatInputDisabled' = inputOff
       /\ sendButtonDisabled' = buttonOff
       /\ pending' = Append(pending, keywords)
       /\ queriesThisTurn' = 1
       /\ lastPath' = "awaiting"

getBotResponse(userText, children, inputOff, buttonOff) ==
    LET keywords == limitedKeywords(userText)
    IN /\ lastKeywords' = keywords
       /\ lastSnapshot' = <<>>
       /\ IF Len(keywords) = 0
          THEN /\ chatMessages' =
                     addMessage(hideTypingIndicator(children), defaultResponse, BotClass)
               /\ chatInputDisabled' = FALSE
               /\ sendButtonDisabled' = FALSE
               /\ pending' = pending
               /\ queriesThisTurn' = 0
               /\ lastPath' = "emptyKeywords"
          ELSE /\ chatMessages' = children
               /\ chatInputDisabled' = inputOff
               /\ sendButtonDisabled' = buttonOff
               /\ pending' = Append(pending, keywords)
               /\ queriesThisTurn' = 1
               /\ lastPath' = "awaiting"

(* a sendMessage that forgets chatInput.disabled = true *)
sendMessage_inputStaysEnabled ==
    LET messageText == trim(chatInputValue)
    IN /\ messageText # <<>>
       /\ Len(UserMessages(chatMessages)) < MaxTurns
       /\ chatInputValue' = <<>>
       /\ getBotResponse(messageText,
                         showTypingIndicator(
                             addMessage(chatMessages, Join(messageText), UserClass)),
                         chatInputDisabled, TRUE)

(* sendMessage; the model stops accepting sends after MaxTurns of them *)
sendMessage ==
    LET messageText == trim(chatInputValue)
    IN /\ messageText # <<>>
       /\ Len(UserMessages(chatMessages)) < MaxTurns
       /\ chatInputValue' = <<>>
       /\ getBotResponse(messageText,
                         showTypingIndicator(
                             addMessage(chatMessages, Join(messageText), UserClass)),
                         TRUE, TRUE)

(* the click listener of sendButton; a disabled button gets no click *)
ClickSend ==
    /\ ~sendButtonDisabled
    /\ sendMessage

(* the keypress listener of chatInput, key Enter; a disabled input gets no key *)
KeypressEnter ==
    /\ ~chatInputDisabled
    /\ sendMessage

(* the user edits the input field, which must be enabled *)
TypeText(text) ==
    /\ ~chatInputDisabled
    /\ chatInputValue' = text
    /\ UNCHANGED <<chatInputDisabled, sendButtonDisabled, chatMessages, pending,
                   queriesThisTurn, lastPath, lastKeywords, lastSnapshot>>

----------------------------------------------------------------------------
(* getBotResponse after `await q.get()` *)

(* a success branch that renders nothing for an empty snapshot *)
querySettled_silentEmpty(i, snapshot) ==
    /\ i \in 1..Len(pending)
    /\ snapshot \in Snapshots(pending[i])
    /\ chatMessages' =
           IF snapshot = <<>>
           THEN hideTypingIndicator(chatMessages)
           ELSE addMessage(hideTypingIndicator(chatMessages),
                           renderedAnswer(snapshot, pending[i]), BotClass)
    /\ chatInputDisabled' = FALSE
    /\ sendButtonDisabled' = FALSE
    /\ pending' = RemoveAt(pending, i)
    /\ lastPath' = IF snapshot = <<>> THEN "emptyCandidates" ELSE "best"
    /\ lastKeywords' = pending[i]
    /\ lastSnapshot' = snapshot
    /\ UNCHANGED <<chatInputValue, queriesThisTurn>>

(* a success branch that forgets hideTypingIndicator *)
querySettled_keepsIndicator(i, snapshot) ==
    /\ i \in 1..Len(pending)
    /\ snapshot \in Snapshots(pending[i])
    /\ chatMessages' =
           addMessage(chatMessages, renderedAnswer(snapshot, pending[i]), BotClass)
    /\ chatInputDisabled' = FALSE
    /\ sendButtonDisabled' = FALSE
    /\ pending' = RemoveAt(pending, i)
    /\ lastPath' = IF snapshot = <<>> THEN "emptyCandidates" ELSE "best"
    /\ lastKeywords' = pending[i]
    /\ lastSnapshot' = snapshot
    /\ UNCHANGED <<chatInputValue, queriesThisTurn>>

(* the query of pending call i resolves with `snapshot`: the try block    *)
(* from hideTypingIndicator on, then the finally block                     *)
querySettled(i, snapshot) ==
    /\ i \in 1..Len(pending)
    /\ snapshot \in Snapshots(pending[i])
    /\ chatMessages' =
           addMessage(hideTypingIndicator(chatMessages),
                      renderedAnswer(snapshot, pending[i]), BotClass)
    /\ chatInputDisabled' = FALSE
    /\ sendButtonDisabled' = FALSE
    /\ pending' = RemoveAt(pending, i)
    /\ lastPath' = IF snapshot = <<>> THEN "emptyCandidates" ELSE "best"
    /\ lastKeywords' = pending[i]
    /\ lastSnapshot' = snapshot
    /\ UNCHANGED <<chatInputValue, queriesThisTurn>>

(* a catch block with no finally after it *)
queryFailed_noFinally(i) ==
    /\ i \in 1..Len(pending)
    /\ chatMessages' =
           addMessage(hideTypingIndicator(chatMessages), troubleResponse, BotClass)
    /\ pending' = RemoveAt(pending, i)
    /\ lastPath' = "failure"
    /\ lastKeywords' = pending[i]
    /\ lastSnapshot' = <<>>
    /\ UNCHANGED <<chatInputValue, chatInputDisabled, sendButtonDisabled,
                   queriesThisTurn>>

(* a catch block that issues the query once more before giving up *)
queryFailed_retry(i) ==
    /\ i \in 1..Len(pending)
    /\ IF queriesThisTurn < 2
       THEN /\ queriesThisTurn' = queriesThisTurn + 1
            /\ UNCHANGED <<chatInputValue, chatInputDisabled, sendButtonDisabled,
                           chatMessages, pending, lastPath, lastKeywords,
                           lastSnapshot>>
       ELSE /\ chatMessages' =
                   addMessage(hideTypingIndicator(chatMessages), troubleResponse,
                              BotClass)
            /\ chatInputDisabled' = FALSE
            /\ sendButtonDisabled' = FALSE
            /\ pending' = RemoveAt(pending, i)
            /\ lastPath' = "failure"
            /\ lastKeywords' = pending[i]
            /\ lastSnapshot' = <<>>
            /\ UNCHANGED <<chatInputValue, queriesThisTurn>>

(* the query of pending call i rejects: the catch block, then the finally  *)
(* block                                                                   *)
queryFailed(i) ==
    /\ i \in 1..Len(pending)
    /\ chatMessages' =
           addMessage(hideTypingIndicator(chatMessages), troubleResponse, BotClass)
    /\ chatInputDisabled' = FALSE
    /\ sendButtonDisabled' = FALSE
    /\ pending' = RemoveAt(pending, i)
    /\ lastPath' = "failure"
    /\ lastKeywords' = pending[i]
    /\ lastSnapshot' = <<>>
    /\ UNCHANGED <<chatInputValue, queriesThisTurn>>

(* the promise of q.get() resolves, for some pending call *)
QueryResolves ==
    \E i \in 1..Len(pending) :
        \E snapshot \in Snapshots(pending[i]) : querySettled(i, snapshot)

(* the promise of q.get() rejects, for some pending call *)
QueryRejects ==
    \E i \in 1..Len(pending) : queryFailed(i)

QuerySettles == QueryResolves \/ QueryRejects

(* the user types a text into the input field *)
UserTypes == \E text \in Texts : TypeText(text)

Next ==
    \/ UserTypes
    \/ ClickSend
    \/ KeypressEnter
    \/ QueryResolves
    \/ QueryRejects

Spec == Init /\ [][Next]_vars

(* q.get() returns a promise that the store settles: it resolves or rejects *)
FairSpec == Spec /\ WF_vars(QuerySettles)

----------------------------------------------------------------------------
(* The keyword extraction of getBotResponse on its own: the text grows by  *)
(* pieces, and the extraction is applied to it.                            *)

TypePiece(piece) ==
    /\ Len(chatInputValue) < MaxPieces * Len(piece)
    /\ chatInputValue' = chatInputValue \o piece
    /\ lastKeywords' = <<>>
    /\ lastPath' = "none"
    /\ UNCHANGED <<chatInputDisabled, sendButtonDisabled, chatMessages, pending,
                   queriesThisTurn, lastSnapshot>>

ExtractKeywords ==
    /\ lastPath = "none"
    /\ lastKeywords' = limitedKeywords(chatInputValue)
    /\ lastPath' = "extracted"
    /\ UNCHANGED <<chatInputValue, chatInputDisabled, sendButtonDisabled,
                   chatMessages, pending, queriesThisTurn, lastSnapshot>>

NextExtract ==
    \/ \E piece \in Pieces : TypePiece(piece)
    \/ ExtractKeywords

SpecExtract == Init /\ [][NextExtract]_vars

----------------------------------------------------------------------------
(* The typing indicator on its own: show, hide and addMessage applied in   *)
(* any order to the chat window.                                           *)

ShowIndicator ==
    /\ Len(chatMessages) < MaxTranscript
    /\ chatMessages' = showTypingIndicator(chatMessages)
    /\ UNCHANGED <<chatInputValue, chatInputDisabled, sendButtonDisabled, pending,
                   queriesThisTurn, lastPath, lastKeywords, lastSnapshot>>

HideIndicator ==
    /\ chatMessages' = hideTypingIndicator(chatMessages)
    /\ UNCHANGED <<chatInputValue, chatInputDisabled, sendButtonDisabled, pending,
                   queriesThisTurn, lastPath, lastKeywords, lastSnapshot>>

AppendMessage(className) ==
    /\ Len(chatMessages) < MaxTranscript
    /\ chatMessages' = addMessage(chatMessages, "m", className)
    /\ UNCHANGED <<chatInputValue, chatInputDisabled, sendButtonDisabled, pending,
                   queriesThisTurn, lastPath, lastKeywords, lastSnapshot>>

NextIndicator ==
    \/ ShowIndicator
    \/ HideIndicator
    \/ \E className \in {UserClass, BotClass} : AppendMessage(className)

SpecIndicator == Init /\ [][NextIndicator]_vars

----------------------------------------------------------------------------
(* Vocabulary of the properties *)

Messages(children) == SelectSeq(children, LAMBDA el : ~IsIndicator(el))

IndicatorCount(children) ==
    Cardinality({k \in 1..Len(children) : IsIndicator(children[k])})

IsPrefix(s, t) == Len(s) <= Len(t) /\ SubSeq(t, 1, Len(s)) = s

LastChild == chatMessages[Len(chatMessages)]

TurnInProgress == pending # <<>>

TurnEnded == lastPath \in {"best", "emptyKeywords", "emptyCandidates", "failure"}

Idle ==
    /\ pending = <<>>
    /\ ~chatInputDisabled
    /\ ~sendButtonDisabled
    /\ IndicatorCount(chatMessages) = 0

(* |candidate.keywords \cap keywords| *)
OverlapScore(docKeywords, keywords) ==
    Cardinality(Range(docKeywords) \cap Range(keywords))

MaxOverlap(docs, keywords) ==
    IF docs = <<>>
    THEN 0
    ELSE CHOOSE m \in 0..(Len(keywords) + 1) :
             /\ \A k \in 1..Len(docs) : OverlapScore(docs[k].keywords, keywords) <= m
             /\ \E k \in 1..Len(docs) : OverlapScore(docs[k].keywords, keywords) = m

FirstWithOverlap(docs, keywords, m) ==
    CHOOSE k \in 1..Len(docs) :
        /\ OverlapScore(docs[k].keywords, keywords) = m
        /\ \A j \in 1..(k - 1) : OverlapScore(docs[j].keywords, keywords) # m

NoDuplicates(s) == \A i, j \in 1..Len(s) : s[i] = s[j] => i = j

----------------------------------------------------------------------------
(* C1: the input field and the send button are disabled exactly while a    *)
(* turn is in progress, and both are enabled when the turn has ended, on   *)
(* every exit path (best answer, no keyword, no candidate, failure).       *)
C1_ControlsDisabledExactlyDuringTurn ==
    /\ chatInputDisabled <=> TurnInProgress
    /\ sendButtonDisabled <=> TurnInProgress
    /\ TurnEnded => ~chatInputDisabled /\ ~sendButtonDisabled

(* a turn that ended in a retrieval failure, after a turn that ended       *)
(* otherwise, with the controls enabled again                              *)
Wit_C1 ==
    /\ lastPath = "failure"
    /\ Len(Messages(chatMessages)) = 4
    /\ chatMessages[2].text # troubleResponse
    /\ ~chatInputDisabled
    /\ ~sendButtonDisabled

(* C2: turns never overlap: at most one getBotResponse call is suspended   *)
(* on its query at any time, and a user message is never added while one   *)
(* is.                                                                     *)
C2_TurnsNeverOverlap ==
    /\ Len(pending) <= 1
    /\ LET users == Len(UserMessages(chatMessages))
           replies == Len(Messages(chatMessages)) - users
       IN users <= replies + 1
    /\ IndicatorCount(chatMessages) = Len(pending)

(* the second turn is waiting for its query, the first one over *)
Wit_C2 ==
    /\ Len(pending) = 1
    /\ Len(UserMessages(chatMessages)) = 2
    /\ Len(Messages(chatMessages)) = 3

(* C3: the answer rendered for a resolved query is the answer of a         *)
(* candidate whose overlap |candidate.keywords \cap keywords| is the       *)
(* maximum over the retrieved candidates (a keyword the query holds twice  *)
(* counts once); the default message when there is no candidate or no      *)
(* positive overlap.                                                       *)
C3_RenderedAnswerHasMaximalOverlap ==
    (lastPath \in {"best", "emptyCandidates"}) =>
        LET top == MaxOverlap(lastSnapshot, lastKeywords)
        IN IF top = 0
           THEN LastChild = Message(defaultResponse, BotClass)
           ELSE \E k \in 1..Len(lastSnapshot) :
                    /\ OverlapScore(lastSnapshot[k].keywords, lastKeywords) = top
                    /\ LastChild = Message(lastSnapshot[k].answer, BotClass)

(* a query that holds a keyword twice has retrieved two candidates, the    *)
(* second of larger overlap than the first, and the second is rendered     *)
Wit_C3 ==
    /\ lastPath = "best"
    /\ ~NoDuplicates(lastKeywords)
    /\ Len(lastSnapshot) = 2
    /\ OverlapScore(lastSnapshot[1].keywords, lastKeywords)
           < OverlapScore(lastSnapshot[2].keywords, lastKeywords)
    /\ lastSnapshot[1].answer # lastSnapshot[2].answer
    /\ LastChild = Message(lastSnapshot[2].answer, BotClass)

(* C4: among the candidates that share the maximum overlap, the answer     *)
(* rendered is that of the earliest in retrieval order.                    *)
C4_EarliestOfTheBestWins ==
    (lastPath = "best" /\ MaxOverlap(lastSnapshot, lastKeywords) > 0) =>
        LastChild =
            Message(lastSnapshot[FirstWithOverlap(lastSnapshot, lastKeywords,
                                     MaxOverlap(lastSnapshot, lastKeywords))].answer,
                    BotClass)

(* two candidates of equal, maximal overlap and different answers have     *)
(* been retrieved, and the first is rendered                               *)
Wit_C4 ==
    /\ lastPath = "best"
    /\ Len(lastSnapshot) = 2
    /\ OverlapScore(lastSnapshot[1].keywords, lastKeywords) = 2
    /\ OverlapScore(lastSnapshot[2].keywords, lastKeywords) = 2
    /\ lastSnapshot[1].answer # lastSnapshot[2].answer
    /\ LastChild = Message(lastSnapshot[1].answer, BotClass)

(* C5: the extracted keyword list is the first 10 (or fewer) non-stop-word *)
(* tokens of the lowercased text, in order: never more than 10 tokens,     *)
(* never a stop word.                                                      *)
C5_KeywordsAreFirstTenNonStopWords ==
    (lastPath = "extracted") =>
        LET surviving == SelectSeq(matchWords(toLowerCaseAsMatched(chatInputValue)),
                                   LAMBDA w : w \notin stopWords)
        IN /\ Len(lastKeywords) <= 10
           /\ \A k \in 1..Len(lastKeywords) : lastKeywords[k] \notin stopWords
           /\ Len(lastKeywords) = Min(10, Len(surviving))
           /\ \A k \in 1..Len(lastKeywords) : lastKeywords[k] = surviving[k]

(* a text with more than 10 keywords and some stop words has been cut to   *)
(* its first 10 keywords                                                   *)
Wit_C5 ==
    /\ lastPath = "extracted"
    /\ Len(lastKeywords) = 10
    /\ Len(userKeywords(chatInputValue)) > 10
    /\ Len(allWords(chatInputValue)) > Len(userKeywords(chatInputValue))

(* C6: a turn whose keyword list is empty renders the default message,     *)
(* issues no query and scores nothing.                                     *)
C6_EmptyKeywordsRenderDefaultWithoutQuery ==
    (lastPath # "none" /\ lastKeywords = <<>>) =>
        /\ lastPath = "emptyKeywords"
        /\ queriesThisTurn = 0
        /\ pending = <<>>
        /\ lastSnapshot = <<>>
        /\ LastChild = Message(defaultResponse, BotClass)

(* the text of stop words and punctuation was sent *)
Wit_C6 ==
    /\ lastPath = "emptyKeywords"
    /\ chatMessages[Len(chatMessages) - 1] = Message(Join(TextStopWords), UserClass)
    /\ LastChild = Message(defaultResponse, BotClass)

(* C7: when the query fails the turn renders the "trouble connecting"      *)
(* message and issues no further query.                                    *)
C7_FailureRendersTroubleWithoutRetry ==
    /\ (lastPath = "failure") =>
           /\ LastChild = Message(troubleResponse, BotClass)
           /\ queriesThisTurn = 1
           /\ pending = <<>>
    /\ queriesThisTurn <= 1

Wit_C7 ==
    /\ lastPath = "failure"
    /\ LastChild = Message(troubleResponse, BotClass)
    /\ queriesThisTurn = 1

(* C8: every turn shows in the transcript: each accepted send appends the  *)
(* user message and the turn appends exactly one bot message after it, on  *)
(* every path; messages are only ever appended.                            *)
TranscriptAlternates ==
    LET m == Messages(chatMessages)
    IN /\ \A k \in 1..Len(m) :
              m[k].cls = IF k % 2 = 1 THEN UserClass ELSE BotClass
       /\ (pending = <<>>) <=> (Len(m) % 2 = 0)
       /\ TurnEnded => LastChild.cls = BotClass

MessagesOnlyAppended ==
    IsPrefix(Messages(chatMessages), Messages(chatMessages'))

SendAppendsUserMessage ==
    (Len(UserMessages(chatMessages')) > Len(UserMessages(chatMessages))) =>
        LET m == Messages(chatMessages)
            n == Messages(chatMessages')
        IN /\ Len(n) > Len(m)
           /\ n[Len(m) + 1] = Message(Join(trim(chatInputValue)), UserClass)
           /\ Len(n) \in {Len(m) + 1, Len(m) + 2}

C8_EveryTurnIsVisible ==
    /\ []TranscriptAlternates
    /\ [][MessagesOnlyAppended /\ SendAppendsUserMessage]_vars

(* two turns are over, the first with the "trouble connecting" reply and   *)
(* the second with the default one                                         *)
Wit_C8 ==
    /\ pending = <<>>
    /\ Len(chatMessages) = 4
    /\ chatMessages[2] = Message(troubleResponse, BotClass)
    /\ chatMessages[4] = Message(defaultResponse, BotClass)

(* C9 as stated: show and hide are idempotent: showing twice is showing    *)
(* once (one indicator, which one hide removes), hiding twice is hiding    *)
(* once, and hide changes nothing when no indicator is shown.              *)
C9_ShowAndHideAreIdempotent ==
    /\ IndicatorCount(chatMessages) <= 1
    /\ (IndicatorCount(chatMessages) = 1) =>
           showTypingIndicator(chatMessages) = chatMessages
    /\ hideTypingIndicator(hideTypingIndicator(chatMessages)) =
           hideTypingIndicator(chatMessages)
    /\ (IndicatorCount(chatMessages) = 0) =>
           hideTypingIndicator(chatMessages) = chatMessages

(* C9 as amended: hide changes nothing when no indicator is shown, so      *)
(* hiding twice is hiding once whenever at most one indicator is shown,    *)
(* and one hide undoes one show; show is not idempotent: every show adds   *)
(* one more indicator, and every hide removes one, the earliest, and no    *)
(* message.                                                                *)
C9_HideIsNoOpWhenNothingShown ==
    LET shown == showTypingIndicator(chatMessages)
        hidden == hideTypingIndicator(chatMessages)
    IN /\ IndicatorCount(shown) = IndicatorCount(chatMessages) + 1
       /\ (IndicatorCount(chatMessages) = 0) =>
              /\ hidden = chatMessages
              /\ hideTypingIndicator(shown) = chatMessages
       /\ (IndicatorCount(chatMessages) <= 1) =>
              hideTypingIndicator(hidden) = hidden
       /\ (IndicatorCount(chatMessages) >= 1) =>
              /\ IndicatorCount(hidden) = IndicatorCount(chatMessages) - 1
              /\ Messages(hidden) = Messages(chatMessages)
              /\ Len(hidden) = Len(chatMessages) - 1

(* show has been applied twice, between messages, with no hide between *)
Wit_C9 ==
    /\ IndicatorCount(chatMessages) = 2
    /\ Len(Messages(chatMessages)) = 2
    /\ IsIndicator(chatMessages[2])
    /\ IsIndicator(chatMessages[4])

(* C10: every started turn comes back to Idle, with the controls enabled   *)
(* and no typing indicator in the transcript, given that the query         *)
(* resolves or fails; a turn that has ended, in a failure too, leaves the  *)
(* widget in Idle, where the listeners accept the next send.               *)
C10_EveryTurnReturnsToIdle ==
    /\ TurnInProgress ~> Idle
    /\ [](TurnEnded => Idle)

(* a turn has been started after the turn before it ended in a failure *)
Wit_C10 ==
    /\ Len(chatMessages) >= 3
    /\ chatMessages[2] = Message(troubleResponse, BotClass)
    /\ chatMessages[3].cls = UserClass
    /\ TurnInProgress

====
